---- MODULE Spec2Model ----
(***************************************************************************)
(* Halloween dashboard: the activation path of the Go server.              *)
(*                                                                         *)
(* A request passes userAuthMiddleware (which reads the user's row into a  *)
(* request-local User struct), then activateHandler (token check on that   *)
(* struct, registry lookup under the read lock, one store transaction that *)
(* debits and logs), then the detached goroutine delegateTrigger (executor *)
(* by trigger type, then refund or success mark).  Every access to shared  *)
(* state (the users/actions/recharges tables, app.config) is one step;     *)
(* the steps of different requests interleave freely.                      *)
(***************************************************************************)
EXTENDS Integers, Sequences, FiniteSets, TLC

VARIABLES
    config,     \* app.config.Triggers: the active trigger table
    users,      \* table users: id -> [tokens_remaining, is_admin]
    actions,    \* table actions: row i has id i
    recharges,  \* table recharges: user_id of every row
    reqs,       \* in-flight requests: handler locals and goroutine locals
    resp,       \* status code of the response written last by activateHandler
    rlog,       \* status codes of the responses written by rechargeHandler
    hist,       \* history, row i of actions: who inserted it, how it resolved
    acct,       \* history, per user: decrements applied to the balance
    now,        \* the clock, in seconds
    stats,      \* the Stats document statsHandler encoded last
    readers,    \* goroutines that read the table under configMutex.RLock
    loader,     \* reloadConfig: where it is, and the table it loaded
    device,     \* the light: its state, and its state before any effect ran
    net         \* datagrams of the light on their way to the listen port

vars == <<config, users, actions, recharges, reqs, resp, rlog, hist, acct,
          now, stats, readers, loader, device, net>>

----------------------------------------------------------------------------
(* Bounds *)

MaxReqs == 2          \* requests in flight at once
MaxNewActions == 2    \* action rows inserted during a run
MaxRecharges == 1     \* recharge requests during a run of Spec
MaxRechargeTries == 2 \* recharge requests during a run of LedgerSpec
MaxFlickers == 2      \* passes of the flicker loop within effectDuration
MaxReaders == 2       \* goroutines reading the trigger table at a time
MaxPasses == 2        \* advances of the clock during a run of StatsSpec

(* Program constants *)

defaultTokens == 10

Reqs == 1..MaxReqs

\* time.Now() when the server starts, in seconds
StartClock == 7230

\* what the clock advances by between two steps that read it
ClockStep == 45

UserIds == {"u1", "u2"}

\* initDB opens the database file of earlier runs, so the server starts on
\* whatever rows they left.  The runs here start with one public user, u1,
\* who has spent all but InitBalances of the allotment on successful
\* activations; u2 has no row yet and gets one from adminLoginHandler.
InitBalances == {1}

----------------------------------------------------------------------------
(* Trigger table *)

\* A pointer field of the Trigger struct that is nil
Nil == -1

NoColor == <<-1, -1, -1>>

Trig(id, name, type) ==
    [id |-> id, name |-> name, type |-> type,
     brightness |-> Nil, color |-> NoColor, temp |-> Nil]

\* a govee_set_state trigger with its govee_brightness, govee_color and
\* govee_color_temp
SetState(id, name, brightness, color, temp) ==
    [Trig(id, name, "govee_set_state") EXCEPT
        !.brightness = brightness, !.color = color, !.temp = temp]

NoTrigger == Trig("", "", "nil")

ConfigA == << Trig("t1", "Cackle", "arduino") >>

ConfigB == << Trig("t1", "Probe", "govee_status"),
              Trig("t1", "Cackle", "arduino") >>

\* Contents config.json may have when it is read.
ConfigFiles == {ConfigA, ConfigB}

\* no "type" key: the field is the empty string
ConfigLegacy == << Trig("t1", "Cackle", "") >>

ConfigFog == << Trig("t1", "Fog", "fogger") >>

ConfigStorm == << Trig("t1", "Storm", "govee_lightning") >>

ConfigGlow == << SetState("t1", "Glow", 30, <<255, 80, 0>>, 2000) >>

ConfigWarm == << SetState("t1", "Warm", Nil, NoColor, 2700) >>

\* Contents with a trigger of every type, and of none.
DeviceConfigFiles ==
    ConfigFiles \cup {ConfigLegacy, ConfigFog, ConfigStorm, ConfigGlow, ConfigWarm}

\* What loadConfig returns when the file cannot be read or parsed.
Unreadable == << Trig("", "", "error") >>

\* Trigger ids a client may put in the URL path; "t2" is in no table.
TriggerIds == {"t1", "t2"}

LookupOrFirst(table, id) ==
    IF \E i \in 1..Len(table) : table[i].id = id
    THEN table[CHOOSE i \in 1..Len(table) :
                  table[i].id = id /\ \A j \in 1..(i - 1) : table[j].id # id]
    ELSE table[1]

\* A second table of two triggers, none of them shared with ConfigB.
ConfigC == << Trig("t3", "Howl", "arduino"),
              Trig("t1", "Fog", "arduino") >>

\* Contents config.json may have while readers are at work.
RegistryFiles == {ConfigA, ConfigB, ConfigC}

LookupLast(table, id) ==
    IF \E i \in 1..Len(table) : table[i].id = id
    THEN table[CHOOSE i \in 1..Len(table) :
                  table[i].id = id /\ \A j \in (i + 1)..Len(table) : table[j].id # id]
    ELSE NoTrigger

\* for i := range app.config.Triggers { if ...ID == triggerID { target = &...[i]; break } }
RECURSIVE FindFrom(_, _, _)
FindFrom(table, id, i) ==
    IF i > Len(table) THEN NoTrigger
    ELSE IF table[i].id = id THEN table[i]
    ELSE FindFrom(table, id, i + 1)

Lookup(table, id) == FindFrom(table, id, 1)

----------------------------------------------------------------------------
(* Store statements *)

UserRow(tokens, admin) == [tokens_remaining |-> tokens, is_admin |-> admin]

\* a new row: success is 0 and timestamp is CURRENT_TIMESTAMP by default
ActionRow(uid, tid) ==
    [user_id |-> uid, trigger_id |-> tid, success |-> FALSE, timestamp |-> now]

\* A store image: the tables a transaction works on.
Image(u, a, rc) == [users |-> u, actions |-> a, recharges |-> rc]

\* UPDATE users SET tokens_remaining = tokens_remaining + d WHERE id = ?
AddTokens(img, uid, d) ==
    IF uid \in DOMAIN img.users
    THEN [img EXCEPT !.users[uid].tokens_remaining = @ + d]
    ELSE img

\* RowsAffected() of that UPDATE
RowsAffected(img, uid) == IF uid \in DOMAIN img.users THEN 1 ELSE 0

\* INSERT INTO actions (user_id, trigger_id, success) VALUES (?, ?, 0)
InsertAction(img, uid, tid) ==
    [img EXCEPT !.actions = Append(@, ActionRow(uid, tid))]

RollbackLost(before, work) == work

\* tx.Rollback(), and a failed tx.Commit(): the store keeps the image the
\* transaction started from.
Rollback(before, work) == before

\* tx.Commit(): the working image becomes the store.
Commit(before, work) == work

----------------------------------------------------------------------------
(* The User struct a request carries in its context *)

User(id, tokens, admin) == [id |-> id, tokens_remaining |-> tokens, is_admin |-> admin]

NoUser == User("", 0, FALSE)

\* activateHandler's token check: "if !user.IsAdmin && user.TokensRemaining <= 0"
OutOfTokensStrict(user) == ~user.is_admin /\ user.tokens_remaining < 0

OutOfTokensAdminToo(user) == user.tokens_remaining <= 0

OutOfTokens(user) == ~user.is_admin /\ user.tokens_remaining <= 0

\* the "if !user.IsAdmin" guard around the debit UPDATE
DebitStepAdminToo(img, user) == AddTokens(img, user.id, -1)

DebitStep(img, user) ==
    IF user.is_admin THEN img ELSE AddTokens(img, user.id, -1)

\* Points at which the store can fail the activation transaction.
TxFailPoints == {"none", "begin", "update", "insert", "commit"}

\* activateHandler, step 1: Begin; UPDATE (non-admins); INSERT; Commit.
\* Returns the store image left behind and the error the handler saw.
ActivateTxnDebitFirst(img, user, tid, fail) ==
    LET w1 == DebitStep(img, user)
        w2 == InsertAction(w1, user.id, tid)
    IN  IF fail = "begin" THEN [img |-> img, err |-> "begin"]
        ELSE IF ~user.is_admin /\ fail = "update" THEN [img |-> img, err |-> "update"]
        ELSE IF fail = "insert" THEN [img |-> w1, err |-> "insert"]
        ELSE IF fail = "commit" THEN [img |-> w1, err |-> "commit"]
        ELSE [img |-> w2, err |-> ""]

ActivateTxn(img, user, tid, fail) ==
    LET w1 == DebitStep(img, user)
        w2 == InsertAction(w1, user.id, tid)
    IN  IF fail = "begin"
        THEN [img |-> img, err |-> "begin"]
        ELSE IF ~user.is_admin /\ fail = "update"
        THEN [img |-> Rollback(img, img), err |-> "update"]
        ELSE IF ~user.is_admin /\ RowsAffected(img, user.id) = 0
        THEN [img |-> Rollback(img, w1), err |-> "norows"]
        ELSE IF fail = "insert"
        THEN [img |-> Rollback(img, w1), err |-> "insert"]
        ELSE IF fail = "commit"
        THEN [img |-> Rollback(img, w2), err |-> "commit"]
        ELSE [img |-> Commit(img, w2), err |-> ""]

\* rechargeHandler: Begin; UPDATE tokens_remaining = defaultTokens; INSERT
\* INTO recharges; Commit.
SetTokens(img, uid, n) ==
    IF uid \in DOMAIN img.users
    THEN [img EXCEPT !.users[uid].tokens_remaining = n]
    ELSE img

InsertRecharge(img, uid) == [img EXCEPT !.recharges = Append(@, uid)]

RechargeTxnUpdateKept(img, uid, fail) ==
    LET w1 == SetTokens(img, uid, defaultTokens)
        w2 == InsertRecharge(w1, uid)
    IN  IF fail \in {"begin", "update"} THEN [img |-> img, err |-> fail]
        ELSE IF fail \in {"insert", "commit"} THEN [img |-> w1, err |-> fail]
        ELSE [img |-> w2, err |-> ""]

RechargeTxn(img, uid, fail) ==
    LET w1 == SetTokens(img, uid, defaultTokens)
        w2 == InsertRecharge(w1, uid)
    IN  IF fail = "begin"
        THEN [img |-> img, err |-> "begin"]
        ELSE IF fail = "update"
        THEN [img |-> Rollback(img, img), err |-> "update"]
        ELSE IF fail = "insert"
        THEN [img |-> Rollback(img, w1), err |-> "insert"]
        ELSE IF fail = "commit"
        THEN [img |-> Rollback(img, w2), err |-> "commit"]
        ELSE [img |-> Commit(img, w2), err |-> ""]

----------------------------------------------------------------------------
(* Executors *)

\* Result of the GET: 0 is a transport error, otherwise the status code.
HttpResults == {0, 200, 302, 400, 500}

\* What getGoveeStatus meets: the listen port is taken ("busy"), or the
\* listener reads, within the deadline, a devStatus reply, nothing, bytes
\* that are not JSON, or a message with another cmd.
StatusResults == {"reply", "timeout", "malformed", "wrongcmd", "busy"}

\* Command whose sends return an error during one step of a dispatch.
SendFaults == {"none", "devStatus", "turn", "brightness", "colorwc"}

\* goveeState as the light reports it
GoveeState(on, brightness, color, temp) ==
    [on |-> on, brightness |-> brightness, color |-> color, temp |-> temp]

NoState == GoveeState(Nil, Nil, NoColor, Nil)

\* States a light may be in when it is asked: on and red, off after warm white.
GoveeStates == {GoveeState(1, 50, <<255, 0, 0>>, 0),
                GoveeState(0, 80, <<0, 0, 0>>, 2700)}

\* What the outside world does to one step of a dispatch: the device's
\* answer to the GET, or the light's reply and the fate of the datagrams.
Env(http, status, state, send) ==
    [http |-> http, status |-> status, state |-> state, send |-> send]

HttpEnvs == {Env(h, "reply", NoState, "none") : h \in HttpResults}

GoveeEnvs == {Env(200, st, s, sd) :
                 st \in StatusResults, s \in GoveeStates, sd \in SendFaults}

\* One message put on the wire: a goveeCommand with its data, or the GET,
\* kept with what came back for it.
Cmd(cmd, value, color, temp) ==
    [cmd |-> cmd, value |-> value, color |-> color, temp |-> temp]

\* What an executor, or one step of it, returns: the messages it sent, its
\* error (TRUE means err != nil) and the state it read from the light.
Out(sent, err, state) == [sent |-> sent, err |-> err, state |-> state]

handleArduinoTriggerOkOnly(trigger, env) ==
    Out(<< Cmd("GET", env.http, NoColor, Nil) >>, env.http # 200, NoState)

\* handleArduinoTrigger: error on transport error or StatusCode >= 400
handleArduinoTrigger(trigger, env) ==
    Out(<< Cmd("GET", env.http, NoColor, Nil) >>, env.http = 0 \/ env.http >= 400, NoState)

\* getGoveeStatus: ListenUDP, send devStatus, read with a 3 s deadline,
\* unmarshal, check cmd; the first error ends it.
getGoveeStatus(env) ==
    LET query == << Cmd("devStatus", Nil, NoColor, Nil) >>
    IN  IF env.status = "busy" THEN Out(<< >>, TRUE, NoState)
        ELSE IF env.send = "devStatus" THEN Out(query, TRUE, NoState)
        ELSE IF env.status # "reply" THEN Out(query, TRUE, NoState)
        ELSE Out(query, FALSE, env.state)

\* setGoveeColor: colorwc with the colour and temperature 0
setGoveeColor(color, env) ==
    Out(<< Cmd("colorwc", Nil, color, 0) >>, env.send = "colorwc", NoState)

applyGoveeLightStateBrightnessFirst(onOff, brightness, color, colorTemp, env) ==
    LET turn == IF onOff # Nil THEN << Cmd("turn", onOff, NoColor, Nil) >> ELSE << >>
        bright == IF brightness # Nil
                  THEN << Cmd("brightness", brightness, NoColor, Nil) >>
                  ELSE << >>
        tint == IF color # NoColor THEN << Cmd("colorwc", Nil, color, 0) >>
                ELSE IF colorTemp # Nil /\ colorTemp > 0
                THEN << Cmd("colorwc", Nil, <<0, 0, 0>>, colorTemp) >>
                ELSE << >>
    IN  Out(bright \o turn \o tint, env.send \in {"turn", "brightness", "colorwc"}, NoState)

\* applyGoveeLightState: turn, brightness, then colour or else colour
\* temperature, each only if given; the first send error ends it.
applyGoveeLightStateTempFirst(onOff, brightness, color, colorTemp, env) ==
    LET turn == IF onOff # Nil THEN << Cmd("turn", onOff, NoColor, Nil) >> ELSE << >>
        bright == IF brightness # Nil
                  THEN << Cmd("brightness", brightness, NoColor, Nil) >>
                  ELSE << >>
        tint == IF colorTemp # Nil /\ colorTemp > 0
                THEN << Cmd("colorwc", Nil, <<0, 0, 0>>, colorTemp) >>
                ELSE IF color # NoColor THEN setGoveeColor(color, env).sent
                ELSE << >>
    IN  IF turn # << >> /\ env.send = "turn"
        THEN Out(turn, TRUE, NoState)
        ELSE IF bright # << >> /\ env.send = "brightness"
        THEN Out(turn \o bright, TRUE, NoState)
        ELSE Out(turn \o bright \o tint, tint # << >> /\ env.send = "colorwc", NoState)

applyGoveeLightState(onOff, brightness, color, colorTemp, env) ==
    LET turn == IF onOff # Nil THEN << Cmd("turn", onOff, NoColor, Nil) >> ELSE << >>
        bright == IF brightness # Nil
                  THEN << Cmd("brightness", brightness, NoColor, Nil) >>
                  ELSE << >>
        tint == IF color # NoColor THEN setGoveeColor(color, env).sent
                ELSE IF colorTemp # Nil /\ colorTemp > 0
                THEN << Cmd("colorwc", Nil, <<0, 0, 0>>, colorTemp) >>
                ELSE << >>
    IN  IF turn # << >> /\ env.send = "turn"
        THEN Out(turn, TRUE, NoState)
        ELSE IF bright # << >> /\ env.send = "brightness"
        THEN Out(turn \o bright, TRUE, NoState)
        ELSE Out(turn \o bright \o tint, tint # << >> /\ env.send = "colorwc", NoState)

handleGoveeStatusTrigger(trigger, env) == getGoveeStatus(env)

\* handleGoveeSetStateTrigger: always turns on, the rest from the trigger
handleGoveeSetStateTrigger(trigger, env) ==
    applyGoveeLightState(1, trigger.brightness, trigger.color, trigger.temp, env)

LightningCaptureBlind(env) ==
    LET got == getGoveeStatus(env)
    IN  Out(got.sent \o setGoveeColor(<<200, 200, 255>>, env).sent, got.err, got.state)

\* simulateGoveeLightning up to the loop: capture the state; on an error
\* return it; else send the cool white, whose error is only logged.
LightningCapture(env) ==
    LET got == getGoveeStatus(env)
    IN  IF got.err THEN got
        ELSE Out(got.sent \o setGoveeColor(<<200, 200, 255>>, env).sent, FALSE, got.state)

LightningFlickerLowFirst(env) ==
    Out(<< Cmd("brightness", 1, NoColor, Nil), Cmd("brightness", 100, NoColor, Nil) >>,
        FALSE, NoState)

\* one pass of the loop: brightness 100, brightness 1, errors not looked at
LightningFlicker(env) ==
    Out(<< Cmd("brightness", 100, NoColor, Nil), Cmd("brightness", 1, NoColor, Nil) >>,
        FALSE, NoState)

\* after the loop: "return applyGoveeLightState(...)" with the captured state
LightningRestore(initialState, env) ==
    LET turnValue == IF initialState.on = 1 THEN 1 ELSE 0
    IN  applyGoveeLightState(turnValue, initialState.brightness,
                             initialState.color, initialState.temp, env)

KnownTypes == {"arduino", "govee_lightning", "govee_status", "govee_set_state"}

\* delegateTrigger, the choice of the executor: an empty type is taken as
\* "arduino"; a type outside the switch has no executor.
ExecutorOf(trigger) ==
    LET triggerType == IF trigger.type = "" THEN "arduino" ELSE trigger.type
    IN  IF triggerType \in KnownTypes THEN triggerType ELSE "default"

\* The part of the outside world the executor of a trigger talks to.
EnvsOf(trigger) ==
    IF ExecutorOf(trigger) = "arduino" THEN HttpEnvs
    ELSE IF ExecutorOf(trigger) = "default" THEN {Env(200, "reply", NoState, "none")}
    ELSE GoveeEnvs

\* delegateTrigger, the switch, for the executors that run in one step
Executor(trigger, env) ==
    CASE ExecutorOf(trigger) = "arduino" -> handleArduinoTrigger(trigger, env)
      [] ExecutorOf(trigger) = "govee_status" -> handleGoveeStatusTrigger(trigger, env)
      [] ExecutorOf(trigger) = "govee_set_state" -> handleGoveeSetStateTrigger(trigger, env)
      [] OTHER -> Out(<< >>, TRUE, NoState)

----------------------------------------------------------------------------
(* Requests *)

\* pc: where the request is; user: the User struct of its context;
\* target: the trigger found, a copy as the handler takes the address of an
\* entry of the table it read; actionID: LastInsertId of its row; runs:
\* executors started for it; sent: messages it put on the wire;
\* initialState, elapsed: locals of simulateGoveeLightning; err: the error
\* delegateTrigger holds after the switch.
Idle == [pc |-> "idle", user |-> NoUser, triggerID |-> "", target |-> NoTrigger,
         actionID |-> 0, runs |-> 0, sent |-> << >>, initialState |-> NoState,
         elapsed |-> 0, err |-> FALSE, heard |-> 0]

\* History kept for each action row: whether an admin's request inserted
\* it, the balance its user had when its transaction began, the tokens
\* given back for it, how its dispatch ended, whether it predates the run.
HistRow(admin, before, result, boot) ==
    [by_admin |-> admin, before |-> before, refunds |-> 0, result |-> result,
     boot |-> boot]

Store == Image(users, actions, recharges)

Balance(u) == users[u].tokens_remaining

NewRows == Cardinality({i \in 1..Len(hist) : ~hist[i].boot})

Admitted == Cardinality({r \in Reqs : reqs[r].pc = "tx"})

\* INSERT INTO users (id, tokens_remaining, is_admin) VALUES (?, ?, ?)
InsertUser(table, uid, admin) ==
    [x \in DOMAIN table \cup {uid} |->
        IF x = uid THEN UserRow(defaultTokens, admin) ELSE table[x]]

\* UPDATE actions SET success = 1 WHERE id = ?
MarkSuccess(img, id) ==
    IF id \in 1..Len(img.actions)
    THEN [img EXCEPT !.actions[id].success = TRUE]
    ELSE img

\* The light: light is what its registers hold, atRest what they held
\* before any effect ran.
Light(state) == [light |-> state, atRest |-> state]

\* no light is looked at
NoDevice == Light(NoState)

\* The goroutines that read the trigger table under the read lock.
Readers == 1..MaxReaders

\* who reads the table: activateHandler's lookup, triggersHandler's
\* listing, statsHandler's loop over the names
ReaderKinds == {"lookup", "list", "names"}

\* The locals of a reader: slice is app.config.Triggers as the range clause
\* or Encode's argument evaluated it, i the index, seen what was read so far.
NoReader ==
    [pc |-> "idle", kind |-> "", id |-> "", slice |-> << >>, i |-> 0,
     seen |-> << >>, target |-> NoTrigger]

\* log is what reloadConfig logged last: "error" for "Failed to reload",
\* "ok" for "Successfully reloaded"
NoLoad == [pc |-> "idle", newConfig |-> << >>, log |-> ""]

----------------------------------------------------------------------------
(* Statistics *)

\* the loop "for i := 59; i >= 0; i--" makes this many points
windowMinutes == 60

\* strftime('%Y-%m-%dT%H:%M:00Z', ...) read back by time.Parse, and
\* Truncate(time.Minute): the start of the minute t lies in
MinuteOf(t) == (t \div 60) * 60

ActivationMinute(minute, public, admin) ==
    [minute |-> minute, public_count |-> public, admin_count |-> admin]

TriggerStat(id, name, public, admin, failure) ==
    [trigger_id |-> id, trigger_name |-> name, public_count |-> public,
     admin_count |-> admin, failure_count |-> failure]

NoStats == [at |-> 0, activations_last_hour |-> << >>, trigger_activations |-> {}]

\* FROM actions a JOIN users u ON a.user_id = u.id
Joined(img) == {i \in 1..Len(img.actions) : img.actions[i].user_id \in DOMAIN img.users}

\* u.is_admin of the joined row
RowIsAdmin(img, i) == img.users[img.actions[i].user_id].is_admin

\* the activations query: rows of the last hour, grouped by minute, with
\* SUM(CASE WHEN u.is_admin = 0 ...) and SUM(CASE WHEN u.is_admin = 1 ...)
ActivationRows(img, t) ==
    LET recent == {i \in Joined(img) : img.actions[i].timestamp >= t - 3600}
        minutes == {MinuteOf(img.actions[i].timestamp) : i \in recent}
        of(m) == {i \in recent : MinuteOf(img.actions[i].timestamp) = m}
    IN  {ActivationMinute(m, Cardinality({i \in of(m) : ~RowIsAdmin(img, i)}),
                             Cardinality({i \in of(m) : RowIsAdmin(img, i)})) :
            m \in minutes}

OnlyRows(rows, t) ==
    [k \in 1..Cardinality(rows) |->
        CHOOSE am \in rows : Cardinality({x \in rows : x.minute < am.minute}) = k - 1]

\* the zero-filled list: for i from 59 down to 0 the point of the minute i
\* minutes before t, from activationMap when it has one
ZeroFill(rows, t) ==
    [k \in 1..windowMinutes |->
        LET minute == MinuteOf(t - 60 * (windowMinutes - k))
        IN  IF \E am \in rows : am.minute = minute
            THEN CHOOSE am \in rows : am.minute = minute
            ELSE ActivationMinute(minute, 0, 0)]

\* triggerNameMap[id] after "for _, t := range app.config.Triggers
\* { triggerNameMap[t.ID] = t.Name }", "" for an id that is no key
RECURSIVE NameFrom(_, _, _, _)
NameFrom(table, id, i, name) ==
    IF i > Len(table) THEN name
    ELSE NameFrom(table, id, i + 1, IF table[i].id = id THEN table[i].name ELSE name)

triggerNameMap(table, id) == NameFrom(table, id, 1, "")

FailureCountResolved(img, tid) ==
    Cardinality({i \in Joined(img) :
        /\ img.actions[i].trigger_id = tid /\ ~img.actions[i].success
        /\ \A r \in Reqs : reqs[r].actionID # i})

\* SUM(CASE WHEN a.success = 0 THEN 1 ELSE 0 END) of the group of tid
FailureCount(img, tid) ==
    Cardinality({i \in Joined(img) :
        img.actions[i].trigger_id = tid /\ ~img.actions[i].success})

\* SUM(CASE WHEN u.is_admin = <admin> AND a.success = 1 THEN 1 ELSE 0 END)
SuccessCount(img, tid, admin) ==
    Cardinality({i \in Joined(img) :
        /\ img.actions[i].trigger_id = tid /\ img.actions[i].success
        /\ RowIsAdmin(img, i) = admin})

\* the trigger query, GROUP BY a.trigger_id, with the names of the table
TriggerActivations(img, table) ==
    {TriggerStat(tid, triggerNameMap(table, tid), SuccessCount(img, tid, FALSE),
                 SuccessCount(img, tid, TRUE), FailureCount(img, tid)) :
        tid \in {img.actions[i].trigger_id : i \in Joined(img)}}

\* the document statsHandler encodes, and when it was made
StatsDoc(img, table, t) ==
    [at |-> t,
     activations_last_hour |-> ZeroFill(ActivationRows(img, t), t),
     trigger_activations |-> TriggerActivations(img, table)]

Init ==
    /\ config \in ConfigFiles
    /\ \E b \in InitBalances :
         /\ users = [x \in {"u1"} |-> UserRow(b, FALSE)]
         /\ actions = [i \in 1..(defaultTokens - b) |->
                          [user_id |-> "u1", trigger_id |-> "t1", success |-> TRUE,
                           timestamp |-> 0]]
         /\ hist = [i \in 1..(defaultTokens - b) |->
                        HistRow(FALSE, defaultTokens - i + 1, "ok", TRUE)]
         /\ acct = [x \in UserIds |-> IF x = "u1" THEN defaultTokens - b ELSE 0]
    /\ recharges = << >>
    /\ rlog = << >>
    /\ resp = 0
    /\ reqs = [r \in Reqs |-> Idle]
    /\ now = StartClock
    /\ stats = NoStats
    /\ readers = [k \in Readers |-> NoReader]
    /\ loader = NoLoad
    /\ device = NoDevice
    /\ net = {}

\* userAuthMiddleware in front of /api/activate/<tid>, for a request that
\* carries the session cookie of user u: the user's row is read into the
\* request's User struct.  The new request takes the lowest idle slot.
Middleware(r, u, tid) ==
    /\ reqs[r].pc = "idle"
    /\ \A q \in Reqs : q < r => reqs[q].pc # "idle"
    /\ u \in DOMAIN users
    /\ reqs' = [reqs EXCEPT ![r] = [Idle EXCEPT
                  !.pc = "check",
                  !.user = User(u, users[u].tokens_remaining, users[u].is_admin),
                  !.triggerID = tid]]
    /\ UNCHANGED <<config, users, actions, recharges, resp, rlog, hist, acct, now, stats, readers, loader, device, net>>

\* activateHandler up to the transaction: the token check on the User struct,
\* then the scan of app.config.Triggers under the read lock.
TokenCheck(r) ==
    /\ reqs[r].pc = "check"
    /\ LET user == reqs[r].user
           targetTrigger == Lookup(config, reqs[r].triggerID)
       IN  IF OutOfTokens(user)
           THEN /\ reqs' = [reqs EXCEPT ![r] = Idle]
                /\ resp' = 403
           ELSE IF targetTrigger = NoTrigger
           THEN /\ reqs' = [reqs EXCEPT ![r] = Idle]
                /\ resp' = 404
           ELSE /\ NewRows + Admitted < MaxNewActions
                /\ reqs' = [reqs EXCEPT ![r].pc = "tx", ![r].target = targetTrigger]
                /\ UNCHANGED resp
    /\ UNCHANGED <<config, users, actions, recharges, rlog, hist, acct, now, stats, readers, loader, device, net>>

\* activateHandler, the transaction and what follows it: on an error 500 and
\* return; on commit "go app.delegateTrigger(...)" and 200.
ActivateTx(r, fail) ==
    /\ reqs[r].pc = "tx"
    /\ LET user == reqs[r].user
           res == ActivateTxn(Store, user, reqs[r].triggerID, fail)
           spent == IF user.id \in DOMAIN users
                    THEN Balance(user.id) - res.img.users[user.id].tokens_remaining
                    ELSE 0
       IN  /\ users' = res.img.users
           /\ actions' = res.img.actions
           /\ recharges' = res.img.recharges
           /\ acct' = [acct EXCEPT ![user.id] = @ + spent]
           /\ hist' = IF Len(res.img.actions) > Len(actions)
                      THEN Append(hist, HistRow(user.is_admin,
                                IF user.id \in DOMAIN users THEN Balance(user.id) ELSE 0,
                                "pending", FALSE))
                      ELSE hist
           /\ IF res.err # ""
              THEN /\ reqs' = [reqs EXCEPT ![r] = Idle]
                   /\ resp' = 500
              ELSE /\ reqs' = [reqs EXCEPT ![r].pc = "exec",
                                            ![r].actionID = Len(res.img.actions)]
                   /\ resp' = 200
    /\ UNCHANGED <<config, rlog, now, stats, readers, loader, device, net>>

\* An executor was started for the request and sent its messages.
Started(req, out) ==
    [req EXCEPT !.runs = @ + 1, !.sent = @ \o out.sent]

ReturnedUnlessFailed(req, out) ==
    IF out.err THEN req ELSE [req EXCEPT !.pc = "resolve", !.err = FALSE]

ReturnedNever(req, out) == Idle

\* The executor returned: delegateTrigger goes on to step 3 with its error.
Returned(req, out) == [req EXCEPT !.pc = "resolve", !.err = out.err]

\* delegateTrigger, the switch, for arduino, govee_status, govee_set_state
\* and default: the executor runs against the device and returns.
Execute(r, env) ==
    /\ reqs[r].pc = "exec"
    /\ ExecutorOf(reqs[r].target) # "govee_lightning"
    /\ env \in EnvsOf(reqs[r].target)
    /\ LET out == Executor(reqs[r].target, env)
           ran == IF ExecutorOf(reqs[r].target) = "default"
                  THEN reqs[r] ELSE Started(reqs[r], out)
       IN  reqs' = [reqs EXCEPT ![r] = Returned(ran, out)]
    /\ UNCHANGED <<config, users, actions, recharges, resp, rlog, hist, acct, now, stats, readers, loader, device, net>>

\* delegateTrigger, case "govee_lightning": simulateGoveeLightning up to
\* its loop.
Capture(r, env) ==
    /\ reqs[r].pc = "exec"
    /\ ExecutorOf(reqs[r].target) = "govee_lightning"
    /\ env \in GoveeEnvs
    /\ LET out == LightningCapture(env)
           ran == Started(reqs[r], out)
       IN  reqs' = [reqs EXCEPT ![r] =
                      IF out.err THEN Returned(ran, out)
                      ELSE [ran EXCEPT !.pc = "flicker", !.initialState = out.state]]
    /\ UNCHANGED <<config, users, actions, recharges, resp, rlog, hist, acct, now, stats, readers, loader, device, net>>

\* time.Since(startTime) after one more pass of the loop
Tick(elapsed) == elapsed + 1

\* simulateGoveeLightning, one pass of "for time.Since(startTime) <
\* effectDuration".
Flicker(r, env) ==
    /\ reqs[r].pc = "flicker"
    /\ reqs[r].elapsed < MaxFlickers
    /\ env \in GoveeEnvs
    /\ LET out == LightningFlicker(env)
       IN  reqs' = [reqs EXCEPT ![r].sent = @ \o out.sent,
                                ![r].elapsed = Tick(@)]
    /\ UNCHANGED <<config, users, actions, recharges, resp, rlog, hist, acct, now, stats, readers, loader, device, net>>

\* simulateGoveeLightning after the loop: the restore, whose error is the
\* executor's.
Restore(r, env) ==
    /\ reqs[r].pc = "flicker"
    /\ reqs[r].elapsed >= MaxFlickers
    /\ env \in GoveeEnvs
    /\ LET out == LightningRestore(reqs[r].initialState, env)
       IN  reqs' = [reqs EXCEPT ![r] =
                      Returned([reqs[r] EXCEPT !.sent = @ \o out.sent], out)]
    /\ UNCHANGED <<config, users, actions, recharges, resp, rlog, hist, acct, now, stats, readers, loader, device, net>>

\* delegateTrigger, step 3: refund a non-admin on error, mark the action
\* successful otherwise; then the goroutine ends.
ResolveTxnRefundAll(img, user, actionID, err) ==
    IF err THEN AddTokens(img, user.id, 1) ELSE MarkSuccess(img, actionID)

ResolveTxnNoRefund(img, user, actionID, err) ==
    IF err THEN img ELSE MarkSuccess(img, actionID)

ResolveTxnMarkAlways(img, user, actionID, err) ==
    MarkSuccess(IF err /\ ~user.is_admin THEN AddTokens(img, user.id, 1) ELSE img,
                actionID)

ResolveTxnRefundTwice(img, user, actionID, err) ==
    IF err
    THEN IF ~user.is_admin THEN AddTokens(img, user.id, 2) ELSE img
    ELSE MarkSuccess(img, actionID)

ResolveTxnRefundToo(img, user, actionID, err) ==
    IF ~user.is_admin
    THEN IF err THEN AddTokens(img, user.id, 1)
         ELSE MarkSuccess(AddTokens(img, user.id, 1), actionID)
    ELSE IF err THEN img ELSE MarkSuccess(img, actionID)

ResolveTxn(img, user, actionID, err) ==
    IF err
    THEN IF ~user.is_admin THEN AddTokens(img, user.id, 1) ELSE img
    ELSE MarkSuccess(img, actionID)

ReportedToCaller(last, err) == IF err THEN 502 ELSE last

\* delegateTrigger has no ResponseWriter: whatever the executor returned,
\* the response the caller got stays what it was.
Reported(last, err) == last

Resolve(r) ==
    /\ reqs[r].pc = "resolve"
    /\ LET user == reqs[r].user
           id == reqs[r].actionID
           img == ResolveTxn(Store, user, id, reqs[r].err)
           back == img.users[user.id].tokens_remaining - Balance(user.id)
       IN  /\ users' = img.users
           /\ actions' = img.actions
           /\ recharges' = img.recharges
           /\ hist' = [hist EXCEPT ![id].refunds = @ + back,
                                   ![id].result = IF reqs[r].err THEN "failed" ELSE "ok"]
    /\ resp' = Reported(resp, reqs[r].err)
    /\ reqs' = [reqs EXCEPT ![r] = Idle]
    /\ UNCHANGED <<config, rlog, acct, now, stats, readers, loader, device, net>>

\* rechargeHandler: the transaction, then 500 on an error and the redirect
\* to "/" otherwise.
Recharge(u, fail) ==
    /\ u \in DOMAIN users
    /\ LET res == RechargeTxn(Store, u, fail)
           code == IF res.err # "" THEN 500 ELSE 302
       IN  /\ Len(rlog) < MaxRechargeTries
           /\ users' = res.img.users
           /\ actions' = res.img.actions
           /\ recharges' = res.img.recharges
           /\ rlog' = Append(rlog, code)
    /\ UNCHANGED <<config, reqs, resp, hist, acct, now, stats, readers, loader, device, net>>

\* adminLoginHandler: a new admin user row
AdminLogin(u) ==
    /\ u \notin DOMAIN users
    /\ users' = InsertUser(users, u, TRUE)
    /\ UNCHANGED <<config, actions, recharges, reqs, resp, rlog, hist, acct, now, stats, readers, loader, device, net>>

\* userAuthMiddleware with a valid admin_key in the URL:
\* UPDATE users SET is_admin = 1 WHERE id = <cookie>
UpgradeAdmin(u) ==
    /\ u \in DOMAIN users
    /\ ~users[u].is_admin
    /\ users' = [users EXCEPT ![u].is_admin = TRUE]
    /\ UNCHANGED <<config, actions, recharges, reqs, resp, rlog, hist, acct, now, stats, readers, loader, device, net>>

\* reloadConfig: on a load error the old table stays, otherwise app.config
\* is replaced under the write lock.
ReloadConfigInPlace(file) ==
    /\ config' = IF file = Unreadable THEN config ELSE file
    /\ reqs' = [r \in Reqs |->
                  LET found == Lookup(file, reqs[r].triggerID)
                  IN  IF reqs[r].target = NoTrigger \/ file = Unreadable \/ found = NoTrigger
                      THEN reqs[r]
                      ELSE [reqs[r] EXCEPT !.target = found]]
    /\ UNCHANGED <<users, actions, recharges, resp, rlog, hist, acct, now, stats, readers, loader, device, net>>

ReloadConfig(file) ==
    /\ config' = IF file = Unreadable THEN config ELSE file
    /\ UNCHANGED <<users, actions, recharges, reqs, resp, rlog, hist, acct, now, stats, readers, loader, device, net>>

----------------------------------------------------------------------------
(* The trigger table and its lock, step by step *)

\* configMutex is held for reading by a goroutine
ReadLocked == \E k \in Readers : readers[k].pc \in {"query", "reading"}

\* app.configMutex.RLock(); the lookup and the listing go on to evaluate
\* app.config.Triggers, statsHandler goes on to its queries
RLock(k, kind, id) ==
    /\ readers[k].pc = "idle"
    /\ loader.pc # "locked"
    /\ readers' = [readers EXCEPT ![k] =
                      IF kind = "names"
                      THEN [NoReader EXCEPT !.pc = "query", !.kind = kind, !.id = id]
                      ELSE [NoReader EXCEPT !.pc = "reading", !.kind = kind, !.id = id,
                                            !.slice = config, !.i = 1]]
    /\ UNCHANGED <<config, users, actions, recharges, reqs, resp, rlog, hist, acct,
                   now, stats, loader, device, net>>

\* statsHandler between its RLock and the loop over the names: the queries
\* to the store have returned, the range clause evaluates app.config.Triggers
StoreQuery(k) ==
    /\ readers[k].pc = "query"
    /\ readers' = [readers EXCEPT ![k] =
                      [@ EXCEPT !.pc = "reading", !.slice = config, !.i = 1]]
    /\ UNCHANGED <<config, users, actions, recharges, reqs, resp, rlog, hist, acct,
                   now, stats, loader, device, net>>

\* the reader is through: the loop broke or ran out, the encoder is done
Through(rd) == rd.i > Len(rd.slice) \/ rd.target # NoTrigger

\* the element a reader reads next: the lookup reads
\* app.config.Triggers[i] anew in the loop body (an index out of range
\* panics: no element), the others the elements of the slice they hold
Element(rd, table) ==
    IF rd.kind = "lookup"
    THEN IF rd.i <= Len(table) THEN table[rd.i] ELSE NoTrigger
    ELSE rd.slice[rd.i]

\* one element more: a pass of the loop, or the encoder's next element
ReadNext(k) ==
    /\ readers[k].pc = "reading"
    /\ ~Through(readers[k])
    /\ LET rd == readers[k]
           element == Element(rd, config)
       IN  readers' = [readers EXCEPT ![k] =
                         [rd EXCEPT !.seen = Append(@, element),
                                    !.i = IF element = NoTrigger THEN Len(rd.slice) + 1
                                          ELSE @ + 1,
                                    !.target = IF rd.kind = "lookup" /\ element.id = rd.id
                                               THEN element ELSE @]]
    /\ UNCHANGED <<config, users, actions, recharges, reqs, resp, rlog, hist, acct,
                   now, stats, loader, device, net>>

\* app.configMutex.RUnlock()
RUnlock(k) ==
    /\ readers[k].pc = "reading"
    /\ Through(readers[k])
    /\ readers' = [readers EXCEPT ![k] = NoReader]
    /\ UNCHANGED <<config, users, actions, recharges, reqs, resp, rlog, hist, acct,
                   now, stats, loader, device, net>>

LoadConfigAssignsAnyway(file) ==
    /\ loader.pc = "idle"
    /\ loader' = IF file = Unreadable THEN [NoLoad EXCEPT !.log = "error"]
                 ELSE [pc |-> "loaded", newConfig |-> file, log |-> loader.log]
    /\ config' = IF file = Unreadable THEN << >> ELSE config
    /\ UNCHANGED <<users, actions, recharges, reqs, resp, rlog, hist, acct,
                   now, stats, readers, device, net>>

\* reloadConfig up to the lock: loadConfig, and "Keeping old configuration"
\* on an error
LoadConfig(file) ==
    /\ loader.pc = "idle"
    /\ loader' = IF file = Unreadable THEN [NoLoad EXCEPT !.log = "error"]
                 ELSE [pc |-> "loaded", newConfig |-> file, log |-> loader.log]
    /\ UNCHANGED <<config, users, actions, recharges, reqs, resp, rlog, hist, acct,
                   now, stats, readers, device, net>>

LockConfigNoWait ==
    /\ loader.pc = "loaded"
    /\ loader' = [loader EXCEPT !.pc = "locked"]
    /\ UNCHANGED <<config, users, actions, recharges, reqs, resp, rlog, hist, acct,
                   now, stats, readers, device, net>>

\* app.configMutex.Lock(): waits until no goroutine holds the read lock
LockConfig ==
    /\ loader.pc = "loaded"
    /\ ~ReadLocked
    /\ loader' = [loader EXCEPT !.pc = "locked"]
    /\ UNCHANGED <<config, users, actions, recharges, reqs, resp, rlog, hist, acct,
                   now, stats, readers, device, net>>

\* app.config = newConfig; app.configMutex.Unlock()
SwapConfig ==
    /\ loader.pc = "locked"
    /\ config' = loader.newConfig
    /\ loader' = [NoLoad EXCEPT !.log = "ok"]
    /\ UNCHANGED <<users, actions, recharges, reqs, resp, rlog, hist, acct,
                   now, stats, readers, device, net>>

----------------------------------------------------------------------------
(* The light and the listen port, step by step *)

\* every command reaches the light, in the order it was sent
Delivered == Env(200, "reply", NoState, "none")

\* the light after one command
Obey(state, cmd) ==
    CASE cmd.cmd = "turn" -> [state EXCEPT !.on = cmd.value]
      [] cmd.cmd = "brightness" -> [state EXCEPT !.brightness = cmd.value]
      [] cmd.cmd = "colorwc" -> [state EXCEPT !.color = cmd.color, !.temp = cmd.temp]
      [] OTHER -> state

\* the light after a list of commands
RECURSIVE ObeyAll(_, _)
ObeyAll(state, cmds) ==
    IF cmds = << >> THEN state
    ELSE ObeyAll(Obey(state, Head(cmds)), Tail(cmds))

\* the light's reply to a devStatus query: its state when asked; query
\* names the dispatch that asked
Datagram(query, state) == [query |-> query, state |-> state]

\* the dispatches whose executor begins with getGoveeStatus
Asks(trigger) == ExecutorOf(trigger) \in {"govee_status", "govee_lightning"}

\* another goroutine has a socket bound to the listen port
PortTaken(r) == \E q \in Reqs : q # r /\ reqs[q].pc = "listening"

\* getGoveeStatus, ListenUDP on the fixed port and the devStatus command:
\* when the port is bound already ListenUDP fails and that error is the
\* executor's; else the query goes out and the light replies
Listen(r) ==
    /\ reqs[r].pc = "exec"
    /\ Asks(reqs[r].target)
    /\ IF PortTaken(r)
       THEN /\ reqs' = [reqs EXCEPT ![r] =
                          Returned(Started(reqs[r], getGoveeStatus(
                              Env(200, "busy", NoState, "none"))),
                                   Out(<< >>, TRUE, NoState))]
            /\ UNCHANGED net
       ELSE /\ reqs' = [reqs EXCEPT ![r] =
                          [Started(reqs[r], getGoveeStatus(Delivered))
                              EXCEPT !.pc = "listening"]]
            /\ net' = net \cup {Datagram(reqs[r].actionID, device.light)}
    /\ UNCHANGED <<config, users, actions, recharges, resp, rlog, hist, acct,
                   now, stats, readers, loader, device>>

\* getGoveeStatus, ReadFromUDP and what follows: the first datagram that
\* reaches the socket is taken, whoever sent it and whatever query it
\* answers; simulateGoveeLightning goes on to the cool white
Receive(r, d) ==
    /\ reqs[r].pc = "listening"
    /\ d \in net
    /\ net' = net \ {d}
    /\ LET heard == [reqs[r] EXCEPT !.heard = d.query]
           cool == setGoveeColor(<<200, 200, 255>>, Delivered)
       IN  IF ExecutorOf(reqs[r].target) = "govee_lightning"
           THEN /\ reqs' = [reqs EXCEPT ![r] =
                              [heard EXCEPT !.pc = "flicker", !.initialState = d.state,
                                            !.sent = @ \o cool.sent]]
                /\ device' = [device EXCEPT !.light = ObeyAll(@, cool.sent)]
           ELSE /\ reqs' = [reqs EXCEPT ![r] = Returned(heard, Out(<< >>, FALSE, d.state))]
                /\ UNCHANGED device
    /\ UNCHANGED <<config, users, actions, recharges, resp, rlog, hist, acct,
                   now, stats, readers, loader>>

\* getGoveeStatus, the read deadline of 3 s passes with no datagram
Timeout(r) ==
    /\ reqs[r].pc = "listening"
    /\ reqs' = [reqs EXCEPT ![r] = Returned(reqs[r], Out(<< >>, TRUE, NoState))]
    /\ UNCHANGED <<config, users, actions, recharges, resp, rlog, hist, acct,
                   now, stats, readers, loader, device, net>>

\* a datagram reaches the port while no socket is bound to it
Drop(d) ==
    /\ d \in net
    /\ \A r \in Reqs : reqs[r].pc # "listening"
    /\ net' = net \ {d}
    /\ UNCHANGED <<config, users, actions, recharges, reqs, resp, rlog, hist, acct,
                   now, stats, readers, loader, device>>

\* simulateGoveeLightning, one pass of the loop, with the light obeying
FlickerLight(r) ==
    /\ reqs[r].pc = "flicker"
    /\ reqs[r].elapsed < MaxFlickers
    /\ LET out == LightningFlicker(Delivered)
       IN  /\ reqs' = [reqs EXCEPT ![r].sent = @ \o out.sent,
                                   ![r].elapsed = Tick(@)]
           /\ device' = [device EXCEPT !.light = ObeyAll(@, out.sent)]
    /\ UNCHANGED <<config, users, actions, recharges, resp, rlog, hist, acct,
                   now, stats, readers, loader, net>>

\* simulateGoveeLightning after the loop, with the light obeying
RestoreLight(r) ==
    /\ reqs[r].pc = "flicker"
    /\ reqs[r].elapsed >= MaxFlickers
    /\ LET out == LightningRestore(reqs[r].initialState, Delivered)
       IN  /\ reqs' = [reqs EXCEPT ![r] =
                          Returned([reqs[r] EXCEPT !.sent = @ \o out.sent], out)]
           /\ device' = [device EXCEPT !.light = ObeyAll(@, out.sent)]
    /\ UNCHANGED <<config, users, actions, recharges, resp, rlog, hist, acct,
                   now, stats, readers, loader, net>>

\* statsHandler, for a request of an admin: the queries and the encoding
GetStats(u) ==
    /\ u \in DOMAIN users
    /\ users[u].is_admin
    /\ stats' = StatsDoc(Store, config, now)
    /\ UNCHANGED <<config, users, actions, recharges, reqs, resp, rlog, hist, acct, now,
                   readers, loader, device, net>>

\* time passes
Pass ==
    /\ now < StartClock + MaxPasses * ClockStep
    /\ now' = now + ClockStep
    /\ UNCHANGED <<config, users, actions, recharges, reqs, resp, rlog, hist, acct, stats,
                   readers, loader, device, net>>

Next ==
    \/ \E r \in Reqs, u \in UserIds, tid \in TriggerIds : Middleware(r, u, tid)
    \/ \E r \in Reqs : TokenCheck(r)
    \/ \E r \in Reqs, fail \in TxFailPoints : ActivateTx(r, fail)
    \/ \E r \in Reqs, env \in HttpEnvs \cup GoveeEnvs : Execute(r, env)
    \/ \E r \in Reqs : Resolve(r)
    \/ \E u \in UserIds, fail \in TxFailPoints :
          Len(rlog) < MaxRecharges /\ Recharge(u, fail)
    \/ \E u \in UserIds : AdminLogin(u)
    \/ \E u \in UserIds : UpgradeAdmin(u)
    \/ \E file \in ConfigFiles \cup {Unreadable} : ReloadConfig(file)

Spec == Init /\ [][Next]_vars

----------------------------------------------------------------------------
(* The dispatch, device by device: one request at a time, against a table
   that may hold a trigger of any type. *)

DispatchInit ==
    /\ config \in DeviceConfigFiles
    /\ \E b \in InitBalances :
         /\ users = [x \in {"u1"} |-> UserRow(b, FALSE)]
         /\ actions = [i \in 1..(defaultTokens - b) |->
                          [user_id |-> "u1", trigger_id |-> "t1", success |-> TRUE,
                           timestamp |-> 0]]
         /\ hist = [i \in 1..(defaultTokens - b) |->
                        HistRow(FALSE, defaultTokens - i + 1, "ok", TRUE)]
         /\ acct = [x \in UserIds |-> IF x = "u1" THEN defaultTokens - b ELSE 0]
    /\ recharges = << >>
    /\ rlog = << >>
    /\ resp = 0
    /\ reqs = [r \in Reqs |-> Idle]
    /\ now = StartClock
    /\ stats = NoStats
    /\ readers = [k \in Readers |-> NoReader]
    /\ loader = NoLoad
    /\ device = NoDevice
    /\ net = {}

DispatchNext ==
    \/ \E u \in UserIds, tid \in TriggerIds : Middleware(1, u, tid)
    \/ \E r \in Reqs : TokenCheck(r)
    \/ \E r \in Reqs, fail \in TxFailPoints : ActivateTx(r, fail)
    \/ \E r \in Reqs, env \in HttpEnvs \cup GoveeEnvs : Execute(r, env)
    \/ \E r \in Reqs, env \in GoveeEnvs : Capture(r, env)
    \/ \E r \in Reqs, env \in GoveeEnvs : Flicker(r, env)
    \/ \E r \in Reqs, env \in GoveeEnvs : Restore(r, env)
    \/ \E r \in Reqs : Resolve(r)
    \/ \E u \in UserIds : AdminLogin(u)
    \/ \E file \in DeviceConfigFiles \cup {Unreadable} : ReloadConfig(file)

DispatchSpec == DispatchInit /\ [][DispatchNext]_vars

\* The goroutine of a committed activation is scheduled until it ends, and
\* each of its steps returns: the GET within httpClient's Timeout, the
\* status read within its deadline, the loop when effectDuration is over.
DispatchFair ==
    \A r \in Reqs :
        /\ WF_vars(\E env \in HttpEnvs \cup GoveeEnvs : Execute(r, env))
        /\ WF_vars(\E env \in GoveeEnvs : Capture(r, env))
        /\ WF_vars(\E env \in GoveeEnvs : Flicker(r, env))
        /\ WF_vars(\E env \in GoveeEnvs : Restore(r, env))
        /\ WF_vars(Resolve(r))

FairDispatchSpec == DispatchSpec /\ DispatchFair

\* The trigger table between its readers and reloadConfig, lock step by
\* lock step.
RegistryInit == DispatchInit /\ config \in RegistryFiles

RegistryNext ==
    \/ \E k \in Readers, kind \in ReaderKinds, id \in TriggerIds : RLock(k, kind, id)
    \/ \E k \in Readers : StoreQuery(k)
    \/ \E k \in Readers : ReadNext(k)
    \/ \E k \in Readers : RUnlock(k)
    \/ \E file \in RegistryFiles \cup {Unreadable} : LoadConfig(file)
    \/ LockConfig
    \/ SwapConfig

RegistrySpec == RegistryInit /\ [][RegistryNext]_vars

\* Tables whose triggers all begin with a status query.
LightFiles == {ConfigStorm, ConfigB}

\* The light in the loop: an admin's session, a light at rest, and the
\* dispatches of up to MaxReqs concurrent requests speaking to it.
LightInit ==
    /\ config \in LightFiles
    /\ users = [x \in {"u2"} |-> UserRow(defaultTokens, TRUE)]
    /\ actions = << >>
    /\ hist = << >>
    /\ acct = [x \in UserIds |-> 0]
    /\ recharges = << >>
    /\ rlog = << >>
    /\ resp = 0
    /\ reqs = [r \in Reqs |-> Idle]
    /\ now = StartClock
    /\ stats = NoStats
    /\ readers = [k \in Readers |-> NoReader]
    /\ loader = NoLoad
    /\ \E state \in GoveeStates : device = Light(state)
    /\ net = {}

LightNext ==
    \/ \E r \in Reqs, u \in UserIds, tid \in TriggerIds : Middleware(r, u, tid)
    \/ \E r \in Reqs : TokenCheck(r)
    \/ \E r \in Reqs, fail \in TxFailPoints : ActivateTx(r, fail)
    \/ \E r \in Reqs : Listen(r)
    \/ \E r \in Reqs, d \in net : Receive(r, d)
    \/ \E r \in Reqs : Timeout(r)
    \/ \E d \in net : Drop(d)
    \/ \E r \in Reqs : FlickerLight(r)
    \/ \E r \in Reqs : RestoreLight(r)
    \/ \E r \in Reqs : Resolve(r)

LightSpec == LightInit /\ [][LightNext]_vars

\* The statistics: one request at a time against the tables of Spec, while
\* time passes, sessions are upgraded and admins ask for the statistics.
StatsNext ==
    \/ \E u \in UserIds, tid \in TriggerIds : Middleware(1, u, tid)
    \/ \E r \in Reqs : TokenCheck(r)
    \/ \E r \in Reqs, fail \in TxFailPoints : ActivateTx(r, fail)
    \/ \E r \in Reqs, env \in HttpEnvs \cup GoveeEnvs : Execute(r, env)
    \/ \E r \in Reqs : Resolve(r)
    \/ \E u \in UserIds : AdminLogin(u)
    \/ \E u \in UserIds : UpgradeAdmin(u)
    \/ \E file \in ConfigFiles \cup {Unreadable} : ReloadConfig(file)
    \/ \E u \in UserIds : GetStats(u)
    \/ Pass

StatsSpec == Init /\ [][StatsNext]_vars

\* The same runs with recharge requests among the steps.
LedgerNext ==
    \/ DispatchNext
    \/ \E u \in UserIds, fail \in TxFailPoints : Recharge(u, fail)

LedgerSpec == DispatchInit /\ [][LedgerNext]_vars

TypeOK ==
    /\ config \in ConfigFiles
    /\ DOMAIN users \subseteq UserIds
    /\ \A u \in DOMAIN users : users[u].is_admin \in BOOLEAN /\ users[u].tokens_remaining \in Int
    /\ Len(hist) = Len(actions)
    /\ \A r \in Reqs : reqs[r].pc \in {"idle", "check", "tx", "exec", "flicker", "resolve"}
    /\ resp \in {0, 200, 403, 404, 500}
    /\ \A k \in 1..Len(rlog) : rlog[k] \in {302, 500}

----------------------------------------------------------------------------
(* Vocabulary of the properties *)

\* the step is one of request r
Moved(r) == reqs'[r] # reqs[r]

StoreUnchanged == UNCHANGED <<users, actions, recharges>>

RowsOf(u) == {i \in 1..Len(actions) : actions[i].user_id = u}

Refunded(u) == \E i \in RowsOf(u) : hist[i].refunds > 0

Recharged(u) == \E k \in 1..Len(recharges) : recharges[k] = u

Running(r) == reqs[r].pc \in {"check", "tx", "exec", "flicker", "resolve"}

\* ids the rows inserted during a run can get
NewRowIds == {defaultTokens - b + k : b \in InitBalances, k \in 1..MaxNewActions}

\* the dispatch of row i is over: marked successful, or failed and given back
\* to a non-admin
Settled(i) ==
    \/ hist[i].result = "ok" /\ actions[i].success /\ hist[i].refunds = 0
    \/ /\ hist[i].result = "failed" /\ ~actions[i].success
       /\ hist[i].refunds = (IF hist[i].by_admin THEN 0 ELSE 1)

\* rows inserted during the run
NewRowsOf(u) == {i \in RowsOf(u) : ~hist[i].boot}

\* row i is all that happened to its user's balance during the run: no other
\* activation of that user was committed, and no recharge
Alone(i) == NewRowsOf(actions[i].user_id) = {i} /\ ~Recharged(actions[i].user_id)

\* s is an initial part of t
IsPrefix(s, t) == Len(s) <= Len(t) /\ s = SubSeq(t, 1, Len(s))

\* a lightning dispatch that captured the light's state and has returned
Restored(r) ==
    /\ reqs[r].target.type = "govee_lightning"
    /\ reqs[r].pc = "resolve"
    /\ reqs[r].initialState # NoState

\* what such a dispatch sent after its last flicker command
RestoreSent(r) ==
    SubSeq(reqs[r].sent, 3 + 2 * reqs[r].elapsed, Len(reqs[r].sent))

\* the id in the request's path is the id of no trigger of the active table
Unknown(r) == \A i \in 1..Len(config) : config[i].id # reqs[r].triggerID

----------------------------------------------------------------------------
(* C1: a non-admin user who was issued defaultTokens tokens and was neither
   refunded nor recharged since has at most defaultTokens debits committed,
   and at most that many action rows, whatever the interleaving of that
   user's requests. *)
NoOverSpend ==
    \A u \in DOMAIN users :
        (~users[u].is_admin /\ ~Refunded(u) /\ ~Recharged(u))
            => (acct[u] <= defaultTokens /\ Cardinality(RowsOf(u)) <= defaultTokens)

(* C2: the stored tokens_remaining of every non-admin user is at least 0 in
   every reachable state. *)
BalanceNonNegative ==
    \A u \in DOMAIN users : ~users[u].is_admin => users[u].tokens_remaining >= 0

(* C3: an activation whose dispatch failed has had its user's balance
   incremented once if the request was a non-admin's and not at all if it
   was an admin's; an activation that is pending or succeeded has not been
   refunded; none is refunded twice. *)
RefundExactlyOnce ==
    \A i \in 1..Len(hist) :
        /\ hist[i].refunds \in {0, 1}
        /\ hist[i].result = "failed" =>
              hist[i].refunds = (IF hist[i].by_admin THEN 0 ELSE 1)
        /\ hist[i].result # "failed" => hist[i].refunds = 0

RefundWitness ==
    /\ \E i \in 1..Len(hist) :
          hist[i].result = "failed" /\ ~hist[i].by_admin /\ hist[i].refunds = 1
    /\ \E i \in 1..Len(hist) :
          hist[i].result = "failed" /\ hist[i].by_admin /\ hist[i].refunds = 0

(* C4: in every reachable state the number of decrements applied to a
   user's balance by activations equals the number of action rows inserted
   by that user's non-admin requests: no debit without its row, no
   non-admin row without its debit, also after aborted transactions. *)
DebitAndRowTogether ==
    \A u \in UserIds :
        acct[u] = Cardinality({i \in RowsOf(u) : ~hist[i].by_admin})

DebitAndRowWitness ==
    /\ resp = 500
    /\ \E i \in 1..Len(hist) : ~hist[i].boot /\ ~hist[i].by_admin

(* C5: a step of the activation transaction that does not end in the
   dispatch being started leaves users, actions and recharges exactly as
   they were, answers 500 and ends the request. *)
TxFailureLeavesNoTrace ==
    [][\A r \in Reqs :
          (reqs[r].pc = "tx" /\ Moved(r) /\ reqs'[r].pc # "exec")
              => (StoreUnchanged /\ resp' = 500 /\ reqs'[r] = Idle)]_vars

TxFailureWitness ==
    /\ resp = 500
    /\ \A r \in Reqs : reqs[r].pc = "idle"
    /\ \A i \in 1..Len(hist) : hist[i].boot

(* C6: a request whose user is a non-admin with balance 0 is answered 403
   at the token check; that step changes no table and the request ends
   there, so it never reaches the transaction or a dispatch. *)
ZeroBalanceRejected ==
    [][\A r \in Reqs :
          (reqs[r].pc = "check" /\ Moved(r)
              /\ ~reqs[r].user.is_admin /\ reqs[r].user.tokens_remaining = 0)
              => (resp' = 403 /\ reqs'[r] = Idle /\ StoreUnchanged)]_vars

ZeroBalanceWitness ==
    /\ resp = 403
    /\ ~users["u1"].is_admin
    /\ users["u1"].tokens_remaining = 0

(* C7, as stated: every request naming a trigger id that is not in the
   table is answered 404, whoever the user. *)
UnknownTriggerAlways404 ==
    [][\A r \in Reqs :
          (reqs[r].pc = "check" /\ Moved(r) /\ Unknown(r)) => resp' = 404]_vars

(* C7, amended: a request naming a trigger id that is not in the table is
   answered 404 when the user is an admin or has a positive balance, and
   403 when the user is a non-admin without tokens; in both cases the
   request ends there. *)
UnknownTriggerRejected ==
    [][\A r \in Reqs :
          (reqs[r].pc = "check" /\ Moved(r) /\ Unknown(r))
              => /\ resp' = (IF OutOfTokens(reqs[r].user) THEN 403 ELSE 404)
                 /\ reqs'[r] = Idle]_vars

UnknownTriggerWitness ==
    /\ resp = 404
    /\ \E u \in DOMAIN users : users[u].is_admin

(* C8: the step that handles a request naming an unknown trigger id changes
   no user's balance and no table, and starts no dispatch. *)
UnknownTriggerNoLedger ==
    [][\A r \in Reqs :
          (reqs[r].pc = "check" /\ Moved(r) /\ Unknown(r))
              => (StoreUnchanged /\ UNCHANGED <<hist, acct>> /\ reqs'[r].pc = "idle")]_vars

UnknownTriggerNoLedgerWitness ==
    /\ resp = 404
    /\ \A i \in 1..Len(hist) : hist[i].boot
    /\ \A r \in Reqs : reqs[r].pc = "idle"

(* C9: no step of a request made as admin (token check, transaction,
   executor, refund-or-mark) changes the stored balance of its user. *)
AdminBalanceUntouched ==
    [][\A r \in Reqs :
          (Running(r) /\ Moved(r) /\ reqs[r].user.is_admin)
              => users'[reqs[r].user.id].tokens_remaining
                    = users[reqs[r].user.id].tokens_remaining]_vars

AdminBalanceWitness ==
    /\ \E i \in 1..Len(hist) : hist[i].by_admin /\ hist[i].result = "failed"
    /\ \E i \in 1..Len(hist) : hist[i].by_admin /\ hist[i].result = "ok"

(* C10: a request made as admin for a trigger in the table passes the token
   check whatever the balance, and its transaction, unless the store fails
   it (500), inserts the action row and starts the dispatch; it is never
   answered 403. *)
AdminNeverDenied ==
    [][\A r \in Reqs :
          (Moved(r) /\ reqs[r].user.is_admin)
              => /\ (reqs[r].pc = "check" /\ ~Unknown(r))
                       => (reqs'[r].pc = "tx" /\ UNCHANGED resp)
                 /\ (reqs[r].pc = "check" /\ Unknown(r)) => resp' = 404
                 /\ (reqs[r].pc = "tx" /\ resp' # 500)
                       => /\ reqs'[r].pc = "exec"
                          /\ actions' = Append(actions,
                                ActionRow(reqs[r].user.id, reqs[r].triggerID))
                          /\ reqs'[r].actionID = Len(actions')]_vars

AdminNeverDeniedWitness ==
    \E i \in 1..Len(hist) :
        /\ hist[i].by_admin
        /\ ~hist[i].boot
        /\ users[actions[i].user_id].tokens_remaining <= 0

(* C11: the step that commits the debit-and-log transaction writes 200 to
   the caller while the dispatch has not run yet; 200 is written by no other
   step of the transaction; and no later step of that activation (executor,
   refund or success mark) writes anything to the caller, whether the
   dispatch fails or not. *)
AckBeforeDispatch ==
    [][\A r \in Reqs :
          /\ (reqs[r].pc = "tx" /\ reqs'[r].pc = "exec")
                => /\ resp' = 200
                   /\ Len(actions') = Len(actions) + 1
                   /\ reqs'[r].runs = 0
          /\ (reqs[r].pc = "tx" /\ Moved(r) /\ reqs'[r].pc # "exec") => resp' # 200
          /\ (reqs[r].pc \in {"exec", "flicker", "resolve"} /\ Moved(r))
                => UNCHANGED resp]_vars

AckBeforeDispatchWitness ==
    /\ resp = 200
    /\ \A r \in Reqs : reqs[r].pc = "idle"
    /\ \E i \in 1..Len(hist) : ~hist[i].boot /\ hist[i].result = "failed"
    /\ \A i \in 1..Len(hist) : ~hist[i].boot => hist[i].result = "failed"

(* C12: when a non-admin's activation was committed and its dispatch failed
   then, once resolved and with nothing else done to that user, the user's
   balance is what it was before the activation, the row of the activation
   is the one row added for the user and has success = FALSE; and the row
   of a failed activation keeps success = FALSE in every later step. *)
FailedActivationRestores ==
    /\ [](\A i \in 1..Len(hist) :
            (~hist[i].boot /\ ~hist[i].by_admin /\ hist[i].result = "failed" /\ Alone(i))
                => /\ Balance(actions[i].user_id) = hist[i].before
                   /\ ~actions[i].success)
    /\ [][\A i \in 1..Len(hist) :
            hist[i].result = "failed" => (Len(actions') >= i /\ ~actions'[i].success)]_vars

FailedActivationWitness ==
    /\ \A r \in Reqs : reqs[r].pc = "idle"
    /\ \E i \in 1..Len(hist) :
          /\ ~hist[i].boot /\ ~hist[i].by_admin /\ hist[i].result = "failed" /\ Alone(i)
          /\ actions[i].trigger_id = "t1"
          /\ Balance(actions[i].user_id) = 1

(* C13: a recharge answered with the redirect has set the user's balance to
   defaultTokens and appended one recharges row for that user, in the same
   step, and changed nothing else; a recharge answered 500, whichever
   statement failed, leaves users, actions and recharges as they were; no
   other step appends to recharges. *)
RechargeAllOrNothing ==
    [][/\ (rlog' # rlog /\ rlog'[Len(rlog')] = 302)
            => \E u \in DOMAIN users :
                  /\ users' = [users EXCEPT ![u].tokens_remaining = defaultTokens]
                  /\ recharges' = Append(recharges, u)
                  /\ actions' = actions
       /\ (rlog' # rlog /\ rlog'[Len(rlog')] = 500) => StoreUnchanged
       /\ recharges' # recharges => rlog' = Append(rlog, 302)]_vars

RechargeWitness ==
    /\ rlog = <<500, 302>>
    /\ recharges = <<"u1">>
    /\ Balance("u1") = defaultTokens

(* C15: every row appended to actions has success = FALSE; a row's success
   goes from FALSE to TRUE only in the step that ends the dispatch of that
   very row, and only if its executor ran and returned no error; a row with
   success = TRUE keeps it; no row is removed or rewritten. *)
SuccessSetOnceByOwnDispatch ==
    [][/\ Len(actions') >= Len(actions)
       /\ \A i \in 1..Len(actions) :
             /\ actions'[i].user_id = actions[i].user_id
             /\ actions'[i].trigger_id = actions[i].trigger_id
             /\ actions[i].success => actions'[i].success
             /\ (~actions[i].success /\ actions'[i].success)
                   => \E r \in Reqs :
                         /\ reqs[r].pc = "resolve" /\ reqs[r].actionID = i
                         /\ reqs[r].runs = 1 /\ ~reqs[r].err
                         /\ reqs'[r] = Idle
       /\ \A i \in (Len(actions) + 1)..Len(actions') : ~actions'[i].success]_vars

SuccessSetOnceWitness ==
    /\ \E i \in 1..Len(hist) :
          ~hist[i].boot /\ hist[i].result = "ok" /\ actions[i].success
    /\ \E i \in 1..Len(hist) :
          ~hist[i].boot /\ hist[i].result = "failed" /\ ~actions[i].success
    /\ \A r \in Reqs : reqs[r].pc = "idle"

(* C16: a dispatch starts only in the step that commits a new action row,
   for that row; no two dispatches are for the same row; the executor is
   started at most once in a dispatch, and exactly once when the dispatch
   has an executor and reaches its refund-or-mark step; after that step
   the dispatch is over, whether it failed or not. *)
OneAttemptPerActivation ==
    /\ [](\A r \in Reqs :
            /\ reqs[r].runs <= 1
            /\ (reqs[r].pc = "resolve" /\ ExecutorOf(reqs[r].target) # "default")
                  => reqs[r].runs = 1
            /\ \A q \in Reqs :
                  (q # r /\ reqs[q].actionID # 0) => reqs[q].actionID # reqs[r].actionID)
    /\ [][\A r \in Reqs :
            /\ (reqs'[r].pc = "exec" /\ reqs[r].pc # "exec")
                  => /\ reqs[r].pc = "tx"
                     /\ Len(actions') = Len(actions) + 1
                     /\ reqs'[r].actionID = Len(actions')
                     /\ reqs'[r].runs = 0
            /\ reqs'[r].runs > reqs[r].runs => (reqs[r].pc = "exec" /\ reqs[r].runs = 0)
            /\ (reqs[r].pc = "resolve" /\ Moved(r)) => reqs'[r] = Idle]_vars

OneAttemptWitness ==
    \E r, q \in Reqs :
        /\ reqs[r].pc = "resolve" /\ reqs[r].runs = 1 /\ reqs[r].err
        /\ reqs[q].pc = "resolve" /\ reqs[q].runs = 1 /\ ~reqs[q].err

(* C14: every action row committed with its dispatch pending is eventually
   settled: marked successful, or left failed with the token given back when
   the request was a non-admin's.  Holds for the GET, the status query, the
   lightning effect, set-state and the default branch. *)
DispatchTerminates ==
    \A i \in NewRowIds :
        (Len(hist) >= i /\ hist[i].result = "pending") ~> (Len(hist) >= i /\ Settled(i))

DispatchTerminatesWitness ==
    /\ config = ConfigStorm
    /\ \A r \in Reqs : reqs[r].pc = "idle"
    /\ \E i \in NewRowIds : Len(hist) >= i /\ hist[i].result = "ok" /\ Settled(i)
    /\ \E i \in NewRowIds : Len(hist) >= i /\ hist[i].result = "failed" /\ Settled(i)

(* C17: the dispatch of a trigger whose type is none of arduino,
   govee_lightning, govee_status, govee_set_state starts no executor and
   sends nothing to any device, ends with an error, and its refund-or-mark
   step leaves the row failed and gives a non-admin the token back. *)
UnknownKindNeverExecuted ==
    [][\A r \in Reqs :
          (Moved(r) /\ reqs[r].target.type \notin KnownTypes)
              => /\ reqs[r].pc = "exec"
                       => /\ reqs'[r].pc = "resolve" /\ reqs'[r].err
                          /\ reqs'[r].runs = 0 /\ reqs'[r].sent = << >>
                 /\ reqs[r].pc = "resolve"
                       => /\ ~actions'[reqs[r].actionID].success
                          /\ users'[reqs[r].user.id].tokens_remaining = Balance(reqs[r].user.id)
                                + (IF reqs[r].user.is_admin THEN 0 ELSE 1)]_vars

(* C18: when the executor of an arduino trigger has returned, it has sent
   one GET, and it returned an error exactly when the GET met a transport
   error or came back with a status of 400 or more; a 2xx or 3xx status is
   no error. *)
HttpFailsFrom400 ==
    \A r \in Reqs :
        (reqs[r].pc = "resolve" /\ reqs[r].target.type = "arduino")
            => /\ Len(reqs[r].sent) = 1
               /\ reqs[r].sent[1].cmd = "GET"
               /\ reqs[r].err <=> (reqs[r].sent[1].value = 0 \/ reqs[r].sent[1].value >= 400)
               /\ reqs[r].sent[1].value \in 200..399 => ~reqs[r].err

HttpFailsFrom400Witness ==
    \E r, q \in Reqs :
        /\ reqs[r].pc = "resolve" /\ reqs[r].target.type = "arduino"
        /\ reqs[r].sent[1].value = 302 /\ ~reqs[r].err
        /\ reqs[q].pc = "resolve" /\ reqs[q].target.type = "arduino"
        /\ reqs[q].sent[1].value = 400 /\ reqs[q].err

(* C19: a lightning dispatch whose capture of the light's state failed
   (port taken, query not sent, no reply in time, reply malformed or of
   another cmd) ends with an error having sent no turn, brightness or
   colorwc command; its refund-or-mark step leaves the row with
   success = FALSE and gives a non-admin the token back. *)
FailedCaptureSendsNothing ==
    /\ [](\A r \in Reqs :
            (reqs[r].target.type = "govee_lightning" /\ reqs[r].pc = "resolve"
                /\ reqs[r].initialState = NoState)
                => /\ reqs[r].err
                   /\ \A k \in 1..Len(reqs[r].sent) : reqs[r].sent[k].cmd = "devStatus")
    /\ [][\A r \in Reqs :
            (reqs[r].target.type = "govee_lightning" /\ reqs[r].pc = "resolve"
                /\ reqs[r].initialState = NoState /\ Moved(r))
                => /\ reqs'[r] = Idle
                   /\ ~actions'[reqs[r].actionID].success
                   /\ users'[reqs[r].user.id].tokens_remaining = Balance(reqs[r].user.id)
                         + (IF reqs[r].user.is_admin THEN 0 ELSE 1)]_vars

FailedCaptureWitness ==
    \E r \in Reqs :
        /\ reqs[r].target.type = "govee_lightning" /\ reqs[r].pc = "resolve"
        /\ reqs[r].initialState = NoState /\ reqs[r].sent # << >>
        /\ ~reqs[r].user.is_admin

(* C20: a lightning dispatch ends with an error only if its capture failed:
   an error of a send after the capture (cool white, flicker, restore) is
   not the executor's error. *)
LightningFailsOnlyOnCapture ==
    \A r \in Reqs :
        (reqs[r].target.type = "govee_lightning" /\ reqs[r].pc = "resolve" /\ reqs[r].err)
            => reqs[r].initialState = NoState

(* C21: a lightning dispatch that has returned sent the status query, the
   cool white, its flicker pairs and only then the restore: turn with the
   captured power, brightness with the captured brightness, colorwc with
   the captured colour, in that order; all three when no send failed, and
   the commands up to the failing one otherwise. *)
RestoreInOrderAfterFlicker ==
    \A r \in Reqs :
        Restored(r) =>
            LET st == reqs[r].initialState
                sent == reqs[r].sent
                full == << Cmd("turn", IF st.on = 1 THEN 1 ELSE 0, NoColor, Nil),
                           Cmd("brightness", st.brightness, NoColor, Nil),
                           Cmd("colorwc", Nil, st.color, 0) >>
            IN  /\ reqs[r].elapsed >= 1
                /\ Len(sent) >= 3 + 2 * reqs[r].elapsed
                /\ sent[1].cmd = "devStatus"
                /\ sent[2] = Cmd("colorwc", Nil, <<200, 200, 255>>, 0)
                /\ \A k \in 1..reqs[r].elapsed :
                      /\ sent[1 + 2 * k] = Cmd("brightness", 100, NoColor, Nil)
                      /\ sent[2 + 2 * k] = Cmd("brightness", 1, NoColor, Nil)
                /\ IsPrefix(RestoreSent(r), full)
                /\ ~reqs[r].err => RestoreSent(r) = full

RestoreInOrderWitness ==
    \E r \in Reqs :
        /\ Restored(r) /\ ~reqs[r].err
        /\ reqs[r].initialState.on = 0
        /\ Len(RestoreSent(r)) = 3

(* C22: a lightning dispatch that captured a light with a non-zero colour
   temperature and whose restore ran without error has sent that temperature
   back to the light among its restore commands. *)
CapturedTemperatureRestored ==
    \A r \in Reqs :
        (/\ Restored(r) /\ ~reqs[r].err
         /\ reqs[r].initialState.temp > 0)
            => \E k \in 1..Len(RestoreSent(r)) :
                   RestoreSent(r)[k].temp = reqs[r].initialState.temp

\* a govee_set_state dispatch that has returned
StateSet(r) ==
    /\ reqs[r].target.type = "govee_set_state"
    /\ reqs[r].pc = "resolve"

(* C23: a set-state dispatch sends turn (on), then the configured brightness
   if any, then at most one colorwc command: the configured colour with
   temperature 0 when a colour is configured, the configured temperature
   only when no colour is; a send error ends the list at the failing
   command. *)
SetStateOrderAndPrecedence ==
    \A r \in Reqs :
        StateSet(r) =>
            LET t == reqs[r].target
                sent == reqs[r].sent
                tints == {k \in 1..Len(sent) : sent[k].cmd = "colorwc"}
                full == << Cmd("turn", 1, NoColor, Nil) >>
                        \o (IF t.brightness # Nil
                            THEN << Cmd("brightness", t.brightness, NoColor, Nil) >>
                            ELSE << >>)
                        \o (IF t.color # NoColor
                            THEN << Cmd("colorwc", Nil, t.color, 0) >>
                            ELSE IF t.temp # Nil /\ t.temp > 0
                            THEN << Cmd("colorwc", Nil, <<0, 0, 0>>, t.temp) >>
                            ELSE << >>)
            IN  /\ IsPrefix(sent, full)
                /\ ~reqs[r].err => sent = full
                /\ Cardinality(tints) <= 1
                /\ \A k \in tints :
                       IF t.color # NoColor
                       THEN sent[k].color = t.color /\ sent[k].temp = 0
                       ELSE sent[k].temp = t.temp

SetStateWitness ==
    \E r \in Reqs :
        /\ StateSet(r) /\ ~reqs[r].err
        /\ reqs[r].target.color # NoColor /\ reqs[r].target.temp > 0
        /\ Len(reqs[r].sent) = 3

(* C25: the lookup of an activation selects, among the triggers of the
   active table that have the requested id, the first in declaration order
   (also when several have it), and the dispatch that follows runs the
   executor of that trigger. *)
DuplicateFirstWins ==
    [][\A r \in Reqs :
          /\ (reqs[r].pc = "check" /\ reqs'[r].pc = "tx") =>
                LET same == {i \in 1..Len(config) : config[i].id = reqs[r].triggerID}
                IN  /\ same # {}
                    /\ reqs'[r].target =
                          config[CHOOSE i \in same : \A j \in same : i <= j]
          /\ (reqs[r].pc = "exec" /\ reqs'[r].pc = "resolve"
                  /\ ExecutorOf(reqs[r].target) \notin {"default", "govee_lightning"}) =>
                \E env \in EnvsOf(reqs[r].target) :
                    reqs'[r].sent = reqs[r].sent \o Executor(reqs[r].target, env).sent
    ]_vars

DuplicateFirstWitness ==
    \E r \in Reqs :
        /\ config = ConfigB
        /\ reqs[r].pc = "resolve"
        /\ reqs[r].target = ConfigB[1]
        /\ Len(reqs[r].sent) = 1 /\ reqs[r].sent[1].cmd = "devStatus"

\* the activation has looked its trigger up and its dispatch has not ended
InFlight(r) == reqs[r].pc \in {"tx", "exec", "flicker", "restore", "resolve"}

(* C30: from its lookup to the end of its dispatch an activation keeps the
   trigger definition the lookup found, whatever tables are loaded in the
   meantime; a reload is possible at each of these moments, and the dispatch
   step of a committed activation is possible whatever table is active. *)
DefinitionFixedAtLookup ==
    /\ [](\A r \in Reqs :
            /\ InFlight(r) => \A file \in DeviceConfigFiles : ENABLED ReloadConfig(file)
            /\ reqs[r].pc = "exec" =>
                  ENABLED (\E env \in HttpEnvs \cup GoveeEnvs :
                              Execute(r, env) \/ Capture(r, env)))
    /\ [][\A r \in Reqs :
            (InFlight(r) /\ reqs'[r].pc \in {"tx", "exec", "flicker", "restore", "resolve"})
                => reqs'[r].target = reqs[r].target]_vars

DefinitionFixedWitness ==
    \E r \in Reqs :
        /\ reqs[r].pc = "resolve"
        /\ reqs[r].sent # << >>
        /\ Lookup(config, reqs[r].triggerID) # reqs[r].target
        /\ Lookup(config, reqs[r].triggerID) # NoTrigger

(* C24: what a reader of the trigger table has read so far is an initial
   part of one table, the one that was active when it took the read lock,
   also while reloadConfig is replacing the table; a reader that is through
   has the result that table gives: the lookup its first trigger with the
   id, the listing and the name loop all its triggers in order. *)
ReadersSeeOneTable ==
    \A k \in Readers :
        readers[k].pc = "reading" =>
            LET rd == readers[k]
            IN  /\ rd.slice \in RegistryFiles
                /\ IsPrefix(rd.seen, rd.slice)
                /\ Through(rd) =>
                      IF rd.kind = "lookup"
                      THEN LET same == {i \in 1..Len(rd.slice) : rd.slice[i].id = rd.id}
                           IN  IF same = {} THEN rd.target = NoTrigger
                               ELSE rd.target =
                                      rd.slice[CHOOSE i \in same : \A j \in same : i <= j]
                      ELSE rd.seen = rd.slice

ReadersSeeOneTableWitness ==
    \E k \in Readers :
        /\ readers[k].pc = "reading"
        /\ readers[k].kind = "lookup"
        /\ Len(readers[k].seen) = 1 /\ ~Through(readers[k])
        /\ loader.pc = "loaded"
        /\ loader.newConfig # config
        /\ Len(loader.newConfig) = 2

\* the step is a statistics request that produced a new document
Queried == stats' # stats

\* the rows of trigger tid
RowsFor(tid) == {i \in 1..Len(actions) : actions[i].trigger_id = tid}

(* C26: in every statistics document the name reported for a trigger id
   that the active table knows is the name of the trigger the activation
   lookup selects for that id in the same table. *)
StatsNameIsLookupName ==
    [][Queried =>
          \A ts \in stats'.trigger_activations :
              LET found == Lookup(config, ts.trigger_id)
              IN  found # NoTrigger => ts.trigger_name = found.name
    ]_vars

(* C27: every statistics document has a series of exactly 60 points whose
   minutes are consecutive and ascending and whose last minute is the
   minute of the request; a point of a minute in which no action was made
   has public and admin counts 0. *)
SeriesIsSixtyMinutes ==
    [][Queried =>
          LET series == stats'.activations_last_hour
          IN  /\ Len(series) = 60
              /\ \A k \in 1..59 : series[k + 1].minute = series[k].minute + 60
              /\ series[60].minute = now - (now % 60)
              /\ LET busy == {actions[i].timestamp - (actions[i].timestamp % 60) :
                                  i \in 1..Len(actions)}
                 IN  \A k \in 1..Len(series) :
                         series[k].minute \notin busy
                            => series[k].public_count = 0 /\ series[k].admin_count = 0
    ]_vars

SeriesWitness ==
    /\ stats # NoStats
    /\ stats.at > StartClock
    /\ \E k \in 1..59 :
          stats.activations_last_hour[k].public_count
              + stats.activations_last_hour[k].admin_count > 0
    /\ \E k \in 1..59 :
          stats.activations_last_hour[k].public_count
              + stats.activations_last_hour[k].admin_count = 0

(* C28: in every statistics document each trigger id that has action rows
   has one entry, whose failure_count is the number of its rows with
   success = false at that moment, pending ones included, and whose three
   counts add up to the number of its rows. *)
FailureCountsUnsuccessful ==
    [][Queried =>
          \A tid \in {actions[i].trigger_id : i \in 1..Len(actions)} :
              LET entries == {ts \in stats'.trigger_activations : ts.trigger_id = tid}
              IN  /\ Cardinality(entries) = 1
                  /\ \A ts \in entries :
                         /\ ts.failure_count =
                               Cardinality({i \in RowsFor(tid) : ~actions[i].success})
                         /\ ts.public_count + ts.admin_count + ts.failure_count =
                               Cardinality(RowsFor(tid))
    ]_vars

FailureCountsWitness ==
    \E r \in Reqs, ts \in stats.trigger_activations :
        /\ reqs[r].pc = "exec"
        /\ stats.at = now
        /\ ts.trigger_id = actions[reqs[r].actionID].trigger_id
        /\ ts.failure_count >= 1
        /\ ts.failure_count = Cardinality({i \in RowsFor(ts.trigger_id) : ~actions[i].success})
        /\ ts.public_count + ts.admin_count + ts.failure_count =
              Cardinality(RowsFor(ts.trigger_id))

(* C29: from one statistics document to the next the public count of a
   trigger never goes down: rows are never deleted and a success is never
   taken back, so an action once counted as public stays counted as
   public, also after its user's session was upgraded to admin. *)
PublicStaysPublic ==
    [][Queried =>
          \A ts \in stats.trigger_activations :
              \E later \in stats'.trigger_activations :
                  /\ later.trigger_id = ts.trigger_id
                  /\ later.public_count >= ts.public_count
    ]_vars

(* C34: the stored balance of a user who is no admin is never above the
   default allotment of 10, whatever the order of activations, refunds
   and recharges. *)
BalanceAtMostAllotment ==
    \A u \in DOMAIN users :
        ~users[u].is_admin => users[u].tokens_remaining <= defaultTokens

\* a dispatch of user u is under way: committed and not yet resolved
Dispatching(u) ==
    \E r \in Reqs :
        reqs[r].user.id = u /\ reqs[r].pc \in {"exec", "flicker", "restore", "resolve"}

(* C35: for a user who is no admin and never recharged, whenever none of
   the user's dispatches is under way, the balance is the default
   allotment less the number of the user's action rows with success. *)
TokenConservation ==
    \A u \in DOMAIN users :
        (~users[u].is_admin /\ ~Recharged(u) /\ ~Dispatching(u)) =>
            users[u].tokens_remaining =
                defaultTokens - Cardinality({i \in RowsOf(u) : actions[i].success})

TokenConservationWitness ==
    \E u \in DOMAIN users :
        /\ ~users[u].is_admin /\ ~Recharged(u) /\ ~Dispatching(u)
        /\ \E i, j \in NewRowsOf(u) :
              /\ hist[i].refunds = 1 /\ ~actions[i].success
              /\ actions[j].success

(* C36: no action row is both marked success and has had a token given
   back for it. *)
SuccessOrRefundNotBoth ==
    \A i \in 1..Len(actions) : ~(actions[i].success /\ hist[i].refunds > 0)

SuccessOrRefundWitness ==
    \E i, j \in 1..Len(actions) :
        /\ ~hist[i].boot /\ hist[i].refunds = 1 /\ ~actions[i].success
        /\ ~hist[j].boot /\ hist[j].refunds = 0 /\ actions[j].success

\* a lightning dispatch that captured the light's state, at any later point
Captured(r) ==
    /\ reqs[r].target.type = "govee_lightning"
    /\ reqs[r].pc \in {"flicker", "resolve"}
    /\ reqs[r].initialState # NoState

(* C33: what a lightning dispatch has sent is, in this order, the status
   query, the initial colour, then pairs of brightness 100 and brightness 1
   (high first, low last), then the restore, which begins with the power
   command and holds no flicker command; restore commands appear only once
   the loop is over. *)
LightningPhaseOrder ==
    \A r \in Reqs :
        Captured(r) =>
            LET sent == reqs[r].sent
                passes == reqs[r].elapsed
                loop == SubSeq(sent, 3, 2 + 2 * passes)
                rest == SubSeq(sent, 3 + 2 * passes, Len(sent))
            IN  /\ Len(sent) >= 2 + 2 * passes
                /\ sent[1].cmd = "devStatus"
                /\ sent[2].cmd = "colorwc"
                /\ \A k \in 1..Len(loop) :
                      /\ loop[k].cmd = "brightness"
                      /\ loop[k].value = (IF k % 2 = 1 THEN 100 ELSE 1)
                /\ reqs[r].pc = "flicker" => rest = << >>
                /\ rest # << >> =>
                      /\ passes >= 1
                      /\ loop[Len(loop)].value = 1
                      /\ rest[1].cmd = "turn"
                      /\ \A k \in 2..Len(rest) :
                            /\ rest[k].cmd \in {"brightness", "colorwc"}
                            /\ rest[k].cmd = "brightness" =>
                                  k = 2 /\ rest[k].value = reqs[r].initialState.brightness

LightningPhaseWitness ==
    \E r \in Reqs :
        /\ Captured(r) /\ reqs[r].pc = "resolve"
        /\ reqs[r].elapsed = MaxFlickers
        /\ Len(reqs[r].sent) = 5 + 2 * MaxFlickers

(* C31: whenever reloadConfig waits at its Lock because the read lock of
   the trigger table is held, none of the goroutines holding it is waiting
   for a store query to return: no handler keeps the lock across a store
   round trip, so a replace never waits for the store. *)
NoLockAcrossStore ==
    (loader.pc = "loaded" /\ ReadLocked) =>
        \A k \in Readers : readers[k].pc # "query"

(* C32: a reload that ends with the error log leaves the active table as
   it was, and every lookup gives after it what it gave before it. *)
FailedReloadKeepsTable ==
    [][(loader'.log = "error" /\ loader.log # "error") =>
          /\ config' = config
          /\ \A id \in TriggerIds : Lookup(config', id) = Lookup(config, id)
    ]_vars

FailedReloadWitness ==
    /\ loader.log = "error"
    /\ loader.pc = "idle"
    /\ config = ConfigB
    /\ Lookup(config, "t1") = ConfigB[1]

(* C37: a dispatch that begins with a status query never fails before it
   has asked: it ends with an error only after it waited for the reply,
   whatever other dispatches are doing at that time. *)
StatusQueriesDoNotCollide ==
    [][\A r \in Reqs :
          (reqs[r].pc = "exec" /\ Asks(reqs[r].target) /\ reqs'[r].pc = "resolve")
              => ~reqs'[r].err
    ]_vars

(* C38: the reply a dispatch accepted as the light's state is the reply
   to its own query. *)
AcceptedReplyIsOwn ==
    \A r \in Reqs :
        reqs[r].heard # 0 => reqs[r].heard = reqs[r].actionID

\* no dispatch is under way and no request is on its way to one
Quiet == \A r \in Reqs : reqs[r].pc \in {"idle", "check"}

(* C39: when every dispatch is over and every effect that ran has
   succeeded, all its commands delivered, the light's power, brightness and
   colour are what they were before the first effect began, also when
   effects overlapped. *)
OverlapRestoresLight ==
    (Quiet /\ \A i \in 1..Len(actions) : actions[i].success) =>
        /\ device.light.on = device.atRest.on
        /\ device.light.brightness = device.atRest.brightness
        /\ device.light.color = device.atRest.color

====
